---- MODULE Spec2Model ----
(***************************************************************************)
(* Model of reconbf/lib/result.py: the result vocabulary, TestResult and   *)
(* GroupTestResult records, the TestResults collection, the visibility     *)
(* filter and the four renderers (terminal, CSV, JSON, HTML).              *)
(*                                                                         *)
(* Python values that the code compares or type-tests carry their class in *)
(* a "type" field, so that isinstance() and == between an object and an    *)
(* integer are modelled as Python evaluates them.                          *)
(***************************************************************************)
EXTENDS Integers, Sequences, FiniteSets

VARIABLES results, last

vars == <<results, last>>

(***************************************************************************)
(* Bounds of the model.                                                    *)
(***************************************************************************)
\* most records (top-level entries plus group members) in the collection
MaxSize == 3
\* longest list handed to one add_results call
MaxBatch == 2

(***************************************************************************)
(* class Result / class ResultDisplayType                                  *)
(***************************************************************************)
PASS == 1
FAIL == 2
SKIP == 3
CONF_SURE == 1
CONF_GUESS == 3

DISPLAY_ALL == 4
DISPLAY_NOT_PASS == 3
DISPLAY_FAIL_ONLY == 2
DISPLAY_OVERALL_ONLY == 1

Outcomes == {PASS, FAIL, SKIP}
DisplayTypes == {DISPLAY_OVERALL_ONLY, DISPLAY_FAIL_ONLY, DISPLAY_NOT_PASS, DISPLAY_ALL}

(***************************************************************************)
(* Python values                                                           *)
(***************************************************************************)
None == [type |-> "NoneType"]
PyInt(k) == [type |-> "int", val |-> k]
\* a str is its sequence of characters
PyStr(chars) == [type |-> "str", chars |-> chars]

\* obj == k for an integer constant k: an object that is not an integer and
\* defines no __eq__ compares unequal to every integer
PyEqInt(obj, k) == obj.type = "int" /\ obj.val = k

\* truth value of a notes value (None and '' are false)
Truthy(v) == v.type = "str" /\ Len(v.chars) > 0

\* names the callers give: the i-th top-level entry and the j-th member of a group
TestNames == <<"check-1", "check<2>", "check-3", "check-4", "check-5", "check-6">>
SubNames == <<"sub-1", "sub&2", "sub-3", "sub-4", "sub-5", "sub-6">>

(***************************************************************************)
(* class TestResult                                                        *)
(***************************************************************************)
TestResult(result, notes, confidence) ==
    [type |-> "TestResult", result |-> result, notes |-> notes,
     confidence |-> confidence]

\* TestResult(result): notes=None, confidence=Result.CONF_SURE
TestResultDefault(result) == TestResult(result, None, CONF_SURE)

(***************************************************************************)
(* class GroupTestResult                                                   *)
(***************************************************************************)
GroupTestResult ==
    [type |-> "GroupTestResult", results_list |-> <<>>, group_result |-> SKIP]

\* the aggregate after add_result, with the PASS branch taken whatever the
\* aggregate was
GroupResultAfterAddNoGuard(group_result, result) ==
    IF result.result = PASS THEN PASS
    ELSE IF result.result = FAIL THEN FAIL
    ELSE group_result

\* the aggregate after add_result(name, result)
GroupResultAfterAdd(group_result, result) ==
    IF result.result = PASS /\ group_result = SKIP THEN PASS
    ELSE IF result.result = FAIL THEN FAIL
    ELSE group_result

\* GroupTestResult.add_result(name, result) applied to the group object g
GroupAddResult(g, name, result) ==
    [g EXCEPT !.group_result = GroupResultAfterAdd(g.group_result, result),
              !.results_list = Append(g.results_list,
                                      [type |-> "dict", name |-> name, result |-> result])]

(***************************************************************************)
(* The collection                                                          *)
(***************************************************************************)
Entry(name, result) == [type |-> "dict", name |-> name, result |-> result]

isTestResult(obj) == obj.type = "TestResult"
isGroupTestResult(obj) == obj.type = "GroupTestResult"

\* records held by one entry: itself, plus the members of a group
EntrySize(e) == IF isGroupTestResult(e.result) THEN 1 + Len(e.result.results_list) ELSE 1

RECURSIVE Size(_)
Size(rs) == IF rs = <<>> THEN 0 ELSE EntrySize(Head(rs)) + Size(Tail(rs))

(***************************************************************************)
(* Helpers of the renderers                                                *)
(***************************************************************************)
\* _check_display_result with the FAIL test widened to every verbosity
_check_display_result_no_level(result, display_mode) ==
    IF display_mode = DISPLAY_ALL THEN TRUE
    ELSE IF PyEqInt(result, FAIL) THEN TRUE
    ELSE IF PyEqInt(result, SKIP) /\ display_mode >= DISPLAY_NOT_PASS THEN TRUE
    ELSE FALSE

_check_display_result(result, display_mode) ==
    IF display_mode = DISPLAY_ALL THEN TRUE
    ELSE IF PyEqInt(result, FAIL) /\ display_mode >= DISPLAY_FAIL_ONLY THEN TRUE
    ELSE IF PyEqInt(result, SKIP) /\ display_mode >= DISPLAY_NOT_PASS THEN TRUE
    ELSE FALSE

_result_text(result) ==
    IF result = PASS THEN "PASS"
    ELSE IF result = FAIL THEN "FAIL"
    ELSE IF result = SKIP THEN "SKIP"
    ELSE "None"

\* dict.get: None for a confidence that is neither constant
_confidence_text(result) ==
    IF result = CONF_GUESS THEN "guess"
    ELSE IF result = CONF_SURE THEN "sure"
    ELSE "None"

_result_to_class(res) ==
    IF res = PASS THEN "test_pass"
    ELSE IF res = FAIL THEN "test_fail"
    ELSE "test_skip"

\* cgi.escape of one character
cgi_escape_char(c) ==
    IF c = "&" THEN <<"&", "a", "m", "p", ";">>
    ELSE IF c = "<" THEN <<"&", "l", "t", ";">>
    ELSE IF c = ">" THEN <<"&", "g", "t", ";">>
    ELSE <<c>>

RECURSIVE cgi_escape_chars(_)
cgi_escape_chars(chars) ==
    IF chars = <<>> THEN <<>>
    ELSE cgi_escape_char(Head(chars)) \o cgi_escape_chars(Tail(chars))

\* cgi.escape of a name the callers give
cgi_escape(name) ==
    IF name = "check<2>" THEN "check&lt;2&gt;"
    ELSE IF name = "sub&2" THEN "sub&amp;2"
    ELSE name

\* widths of display_on_terminal
TEST_NAME == 60
TEST_RESULT == 9
TEST_CONFIDENCE == 11
DefaultTermWidth == 80

\* what _get_term_width can return: the default, or the columns stty reports
\* (a notes column of 0, 3 and 5 characters)
TermWidths == {DefaultTermWidth, 83, 85}

\* chars[0:n], the Python slice (a negative n counts from the end)
PySliceTo(chars, n) ==
    IF n >= 0 THEN SubSeq(chars, 1, IF n < Len(chars) THEN n ELSE Len(chars))
    ELSE IF Len(chars) + n >= 1 THEN SubSeq(chars, 1, Len(chars) + n)
    ELSE <<>>

\* notes as display_on_terminal prints them
TruncateNotes(notes, notes_width) ==
    IF Truthy(notes) /\ Len(notes.chars) > notes_width
    THEN PyStr(PySliceTo(notes.chars, notes_width - 3) \o <<".", ".", ".">>)
    ELSE notes

\* _build_result_string: the fields of the line, in the order they are laid out
_build_result_string(name, result, confidence, notes, use_color, indent) ==
    [kind |-> "row",
     tab |-> IF indent THEN "     " ELSE "",
     name |-> name,
     color |-> IF ~use_color THEN ""
               ELSE IF result = PASS THEN "pass"
               ELSE IF result = SKIP THEN "skip"
               ELSE IF result = FAIL THEN "fail"
               ELSE "",
     pass_string |-> IF result = PASS THEN "PASS"
                     ELSE IF result = SKIP THEN "SKIP"
                     ELSE IF result = FAIL THEN "FAIL"
                     ELSE "",
     conf_string |-> IF PyEqInt(confidence, CONF_GUESS) THEN "guess" ELSE "",
     notes |-> IF Truthy(notes) THEN notes.chars ELSE <<>>]

_create_html_result_row(result, do_indent) ==
    [kind |-> "tr",
     tr_class |-> _result_to_class(result.result.result),
     name_class |-> IF do_indent THEN "result_indent" ELSE "",
     name |-> cgi_escape(result.name),
     text |-> _result_text(result.result.result),
     notes |-> cgi_escape_chars(IF Truthy(result.result.notes)
                                THEN result.result.notes.chars ELSE <<>>)]

_create_html_group_row(result) ==
    [kind |-> "tr",
     tr_class |-> _result_to_class(result.result.group_result),
     name_class |-> "",
     name |-> cgi_escape(result.name),
     text |-> _result_text(result.result.group_result),
     notes |-> <<>>]

(***************************************************************************)
(* TestResults.display_on_terminal                                         *)
(***************************************************************************)
\* the child_results list built from result_list[k..]
RECURSIVE TerminalChildRows(_, _, _, _, _)
TerminalChildRows(result_list, k, use_color, display_type, notes_width) ==
    IF k > Len(result_list) THEN <<>>
    ELSE LET child_res == result_list[k]
         IN  (IF _check_display_result(PyInt(child_res.result.result), display_type)
              THEN <<_build_result_string(child_res.name,
                                          child_res.result.result,
                                          PyInt(child_res.result.confidence),
                                          TruncateNotes(child_res.result.notes, notes_width),
                                          use_color, TRUE)>>
              ELSE <<>>)
             \o TerminalChildRows(result_list, k + 1, use_color, display_type, notes_width)

\* the lines one iteration of the loop over self._results prints
TerminalEntryRows(res, use_color, display_type, notes_width) ==
    IF isTestResult(res.result)
    THEN IF _check_display_result(PyInt(res.result.result), display_type)
            \/ display_type = DISPLAY_OVERALL_ONLY
         THEN <<_build_result_string(res.name, res.result.result,
                                     PyInt(res.result.confidence),
                                     TruncateNotes(res.result.notes, notes_width),
                                     use_color, FALSE)>>
         ELSE <<>>
    ELSE IF isGroupTestResult(res.result)
    THEN LET child_results == TerminalChildRows(res.result.results_list, 1, use_color,
                                                display_type, notes_width)
             parent_result == res.result.group_result
         IN  IF _check_display_result(PyInt(parent_result), display_type)
                \/ display_type = DISPLAY_OVERALL_ONLY
             THEN <<_build_result_string(res.name, parent_result, None, PyStr(<<>>),
                                         use_color, FALSE)>>
                  \o child_results
             ELSE <<>>
    ELSE <<>>

RECURSIVE TerminalRows(_, _, _, _)
TerminalRows(rs, use_color, display_type, notes_width) ==
    IF rs = <<>> THEN <<>>
    ELSE TerminalEntryRows(Head(rs), use_color, display_type, notes_width)
         \o TerminalRows(Tail(rs), use_color, display_type, notes_width)

\* everything display_on_terminal prints, line by line
TerminalOutput(rs, use_color, display_type, term_width) ==
    LET notes_width == term_width - TEST_NAME - TEST_RESULT - TEST_CONFIDENCE
    IN  <<[kind |-> "blank"], [kind |-> "rule", width |-> term_width],
          [kind |-> "titles"], [kind |-> "rule", width |-> term_width]>>
        \o TerminalRows(rs, use_color, display_type, notes_width)
        \o <<[kind |-> "blank"]>>

(***************************************************************************)
(* TestResults.had_failures                                                *)
(***************************************************************************)
RECURSIVE HadFailures(_)
HadFailures(rs) ==
    IF rs = <<>> THEN FALSE
    ELSE LET result == Head(rs)
         IN  IF isTestResult(result.result)
             THEN IF PyEqInt(result.result, FAIL) THEN TRUE ELSE HadFailures(Tail(rs))
             ELSE IF isGroupTestResult(result.result)
             THEN IF PyEqInt(PyInt(result.result.group_result), FAIL) THEN TRUE
                  ELSE HadFailures(Tail(rs))
             ELSE HadFailures(Tail(rs))

(***************************************************************************)
(* The file at the output path, and what the logger received               *)
(***************************************************************************)
NoFile == [exists |-> FALSE, content |-> <<>>]
File(content) == [exists |-> TRUE, content |-> content]
\* an artifact written to the path before this run
PriorFile == File(<<[kind |-> "text", text |-> "prior artifact"]>>)

Log(level, msg) == [level |-> level, msg |-> msg]

\* what a call leaves behind: the file at the path, how far the I/O got, the log
\* records, the exception that escapes, and the output and template handles
IoOutcome(file, io, log, raised, handle, template_handle) ==
    [file |-> file, io |-> io, log |-> log, raised |-> raised, handle |-> handle,
     template_handle |-> template_handle]

(***************************************************************************)
(* TestResults.write_csv                                                   *)
(***************************************************************************)
\* Python None in a column of texts
NoneText == "<None>"

header_row_items ==
    <<"Test", "Subtest", "Result", <<"N", "o", "t", "e", "s">>, "Confidence">>

\* one row as csv.writer writes it: None becomes the empty field
CsvLine(name, subname, result) ==
    <<name,
      IF subname = NoneText THEN "" ELSE subname,
      _result_text(result.result),
      IF result.notes.type = "NoneType" THEN <<>> ELSE result.notes.chars,
      IF _confidence_text(result.confidence) = "None" THEN ""
      ELSE _confidence_text(result.confidence)>>

\* the member loop writing each member as a standalone row
RECURSIVE CsvSubRowsAsStandalone(_, _, _)
CsvSubRowsAsStandalone(test_result, result_list, k) ==
    IF k > Len(result_list) THEN <<>>
    ELSE <<CsvLine(result_list[k].name, NoneText, result_list[k].result)>>
         \o CsvSubRowsAsStandalone(test_result, result_list, k + 1)

RECURSIVE CsvSubRows(_, _, _)
CsvSubRows(test_result, result_list, k) ==
    IF k > Len(result_list) THEN <<>>
    ELSE <<CsvLine(test_result.name, result_list[k].name, result_list[k].result)>>
         \o CsvSubRows(test_result, result_list, k + 1)

\* the rows list of write_csv
RECURSIVE CsvRows(_)
CsvRows(rs) ==
    IF rs = <<>> THEN <<>>
    ELSE LET test_result == Head(rs)
         IN  (IF isGroupTestResult(test_result.result)
              THEN CsvSubRows(test_result, test_result.result.results_list, 1)
              ELSE <<CsvLine(test_result.name, NoneText, test_result.result)>>)
             \o CsvRows(Tail(rs))

RECURSIVE CsvChunksOf(_)
CsvChunksOf(rows) ==
    IF rows = <<>> THEN <<>>
    ELSE <<[kind |-> "csv_row", cells |-> Head(rows)]>> \o CsvChunksOf(Tail(rows))

\* what writerow(header_row_items) and writerows(rows) put in the file
CsvChunks(rs) ==
    <<[kind |-> "csv_header", cells |-> header_row_items]>> \o CsvChunksOf(CsvRows(rs))

CsvPreparing == Log("info", "Preparing to write CSV file [ {} ] ")
CsvUnable == Log("info", "Unable to open CSV file [ %s ] for writing")
CsvSuccessful == Log("info", "Writing CSV file: [ %s ] successful ")

\* try: with open(filename, 'w'): write / except EnvironmentError / else
\* open_ok: open() succeeds; written: chunks on disk when the write ends
\* (all of them: the write succeeded)
write_csv_io(file, chunks, open_ok, written) ==
    IF ~open_ok
    THEN IoOutcome(file, "open_failed", <<CsvPreparing, CsvUnable>>, "none", "none", "none")
    ELSE IF written < Len(chunks)
    THEN IoOutcome(File(SubSeq(chunks, 1, written)), "write_failed",
                 <<CsvPreparing, CsvUnable>>, "none", "closed", "none")
    ELSE IoOutcome(File(chunks), "ok", <<CsvPreparing, CsvSuccessful>>, "none", "closed",
                 "none")

(***************************************************************************)
(* TestResults.write_json                                                  *)
(***************************************************************************)
RECURSIVE JsonResults(_, _)
JsonResults(result_list, k) ==
    IF k > Len(result_list) THEN <<>>
    ELSE <<[name |-> result_list[k].name,
            result |-> [text |-> _result_text(result_list[k].result.result)],
            notes |-> result_list[k].result.notes]>>
         \o JsonResults(result_list, k + 1)

\* the tests list of write_json
RECURSIVE JsonTests(_)
JsonTests(rs) ==
    IF rs = <<>> THEN <<>>
    ELSE LET test == Head(rs)
         IN  (IF isTestResult(test.result)
              THEN <<[name |-> test.name,
                      result |-> [text |-> _result_text(test.result.result)],
                      notes |-> test.result.notes]>>
              ELSE IF isGroupTestResult(test.result)
              THEN <<[name |-> test.name,
                      result |-> [list |-> JsonResults(test.result.results_list, 1)]]>>
              ELSE <<>>)
             \o JsonTests(Tail(rs))

RECURSIVE JsonChunksOf(_)
JsonChunksOf(tests) ==
    IF tests = <<>> THEN <<>>
    ELSE <<[kind |-> "json_object", object |-> Head(tests)]>> \o JsonChunksOf(Tail(tests))

\* what json.dump(tests, fp, indent=4) writes: "[]" for the empty list, else the
\* objects between brackets
JsonChunks(rs) ==
    IF JsonTests(rs) = <<>> THEN <<[kind |-> "json_token", text |-> "[]"]>>
    ELSE <<[kind |-> "json_token", text |-> "["]>> \o JsonChunksOf(JsonTests(rs))
         \o <<[kind |-> "json_token", text |-> "]"]>>

JsonPreparing == Log("info", "Preparing to write JSON file [ %s ]")
JsonUnable == Log("info", "Unable to open JSON file [ %s ] for writing!")
JsonSuccessful == Log("info", "Writing JSON file: [ %s ] successful!")

\* write_json without the except clause
write_json_io_uncaught(file, chunks, open_ok, written) ==
    IF ~open_ok
    THEN IoOutcome(file, "open_failed", <<JsonPreparing>>, "IOError", "none", "none")
    ELSE IF written < Len(chunks)
    THEN IoOutcome(File(SubSeq(chunks, 1, written)), "write_failed",
                   <<JsonPreparing>>, "IOError", "closed", "none")
    ELSE IoOutcome(File(chunks), "ok", <<JsonPreparing>>, "none", "closed", "none")

\* lines 397-405: try: with open(filename, 'w'): json.dump / except / else
write_json_io(file, chunks, open_ok, written) ==
    IF ~open_ok
    THEN IoOutcome(file, "open_failed", <<JsonPreparing, JsonUnable>>, "none", "none", "none")
    ELSE IF written < Len(chunks)
    THEN IoOutcome(File(SubSeq(chunks, 1, written)), "write_failed",
                 <<JsonPreparing, JsonUnable>>, "none", "closed", "none")
    ELSE IoOutcome(File(chunks), "ok", <<JsonPreparing, JsonSuccessful>>, "none", "closed",
                 "none")

(***************************************************************************)
(* TestResults.write_html                                                  *)
(***************************************************************************)
RESULTS_MARKER == [kind |-> "marker", text |-> "$$$RESULTS$$$"]

\* the template the callers ship: text around one marker
HtmlTemplate ==
    <<[kind |-> "text", text |-> "<table>"], RESULTS_MARKER,
      [kind |-> "text", text |-> "</table>"]>>

\* the child loop with the parent's OVERALL_ONLY override copied into it
RECURSIVE HtmlChildRowsWithOverride(_, _, _)
HtmlChildRowsWithOverride(result_list, k, display_type) ==
    IF k > Len(result_list) THEN <<>>
    ELSE (IF _check_display_result(PyInt(result_list[k].result.result), display_type)
             \/ display_type = DISPLAY_OVERALL_ONLY
          THEN <<_create_html_result_row(result_list[k], TRUE)>>
          ELSE <<>>)
         \o HtmlChildRowsWithOverride(result_list, k + 1, display_type)

RECURSIVE HtmlChildRows(_, _, _)
HtmlChildRows(result_list, k, display_type) ==
    IF k > Len(result_list) THEN <<>>
    ELSE (IF _check_display_result(PyInt(result_list[k].result.result), display_type)
          THEN <<_create_html_result_row(result_list[k], TRUE)>>
          ELSE <<>>)
         \o HtmlChildRows(result_list, k + 1, display_type)

\* what one iteration of the loop over self._results adds to html_rows
HtmlEntryRows(res, display_type) ==
    IF isTestResult(res.result)
    THEN IF _check_display_result(PyInt(res.result.result), display_type)
            \/ display_type = DISPLAY_OVERALL_ONLY
         THEN <<_create_html_result_row(res, FALSE)>>
         ELSE <<>>
    ELSE IF isGroupTestResult(res.result)
    THEN LET child_rows == HtmlChildRows(res.result.results_list, 1, display_type)
         IN  (IF _check_display_result(res, display_type)
                 \/ display_type = DISPLAY_OVERALL_ONLY
              THEN <<_create_html_group_row(res)>>
              ELSE <<>>)
             \o child_rows
    ELSE <<>>

RECURSIVE HtmlRows(_, _)
HtmlRows(rs, display_type) ==
    IF rs = <<>> THEN <<>>
    ELSE HtmlEntryRows(Head(rs), display_type) \o HtmlRows(Tail(rs), display_type)

\* template_content.replace(RESULTS_MARKER, html_rows)
RECURSIVE HtmlReplace(_, _)
HtmlReplace(template_content, html_rows) ==
    IF template_content = <<>> THEN <<>>
    ELSE (IF Head(template_content) = RESULTS_MARKER THEN html_rows
          ELSE <<Head(template_content)>>)
         \o HtmlReplace(Tail(template_content), html_rows)

HtmlPreparing == Log("info", "Preparing to write HTML file: [ %s ]")
HtmlTemplateUnable == Log("error", "Unable to open template file: [ %s ]")
HtmlOutputUnable == Log("error", "Unable to open output file: [ %s ] for writing")
HtmlSuccessful == Log("info", "Successfully wrote HTML file: [ %s ]")

\* what happens to the template file: open() fails, read() fails, or it is read
TemplateStates == {"open_fails", "read_fails", "ok"}

\* output_file.write(template_content) is one write call: one chunk
HtmlChunks(html_rows) ==
    <<[kind |-> "html", tokens |-> HtmlReplace(HtmlTemplate, html_rows)]>>

\* write_html with the output opened before the template is read
write_html_io_output_first(file, chunks, template, open_ok, written) ==
    IF ~open_ok
    THEN IoOutcome(file, "open_failed", <<HtmlPreparing, HtmlOutputUnable>>, "none",
                   "none", "none")
    ELSE IF template # "ok"
    THEN IoOutcome(File(<<>>), IF template = "open_fails" THEN "template_open_failed"
                               ELSE "template_read_failed",
                   <<HtmlPreparing, HtmlTemplateUnable>>, "none", "closed",
                   IF template = "open_fails" THEN "none" ELSE "open")
    ELSE IF written < Len(chunks)
    THEN IoOutcome(File(SubSeq(chunks, 1, written)), "write_failed",
                   <<HtmlPreparing>>, "IOError", "open", "closed")
    ELSE IoOutcome(File(chunks), "ok", <<HtmlPreparing, HtmlSuccessful>>,
                   "none", "closed", "closed")

\* lines 343-361: read the template, then open and write the output; a failing
\* output_file.write is in the else clause of the try, where nothing catches it
\* and output_file.close() is not reached
write_html_io(file, chunks, template, open_ok, written) ==
    IF template = "open_fails"
    THEN IoOutcome(file, "template_open_failed", <<HtmlPreparing, HtmlTemplateUnable>>,
                   "none", "none", "none")
    ELSE IF template = "read_fails"
    THEN IoOutcome(file, "template_read_failed", <<HtmlPreparing, HtmlTemplateUnable>>,
                   "none", "none", "open")
    ELSE IF ~open_ok
    THEN IoOutcome(file, "open_failed", <<HtmlPreparing, HtmlOutputUnable>>,
                   "none", "none", "closed")
    ELSE IF written < Len(chunks)
    THEN IoOutcome(File(SubSeq(chunks, 1, written)), "write_failed",
                   <<HtmlPreparing>>, "IOError", "open", "closed")
    ELSE IoOutcome(File(chunks), "ok", <<HtmlPreparing, HtmlSuccessful>>,
                   "none", "closed", "closed")

(***************************************************************************)
(* The calls.  last is the record of the latest call: the operation, its   *)
(* arguments, what it returned or printed, the file at the path it was     *)
(* given before and after, what it logged, the exception that escaped and  *)
(* the handles it left.                                                    *)
(***************************************************************************)
Call(op, args, ret, stdout, before, out) ==
    [op |-> op, args |-> args, ret |-> ret, stdout |-> stdout,
     before |-> before, after |-> out.file, io |-> out.io,
     log |-> out.log, raised |-> out.raised, handle |-> out.handle,
     template_handle |-> out.template_handle]

\* a call that touches no file
NoIo == IoOutcome(NoFile, "none", <<>>, "none", "none", "none")
MemoryCall(op, args, ret, stdout) == Call(op, args, ret, stdout, NoFile, NoIo)

\* the path a writer is given: nothing there yet, or an earlier artifact
Paths == {NoFile, PriorFile}

\* the records the checks hand over, one per outcome
Sample(result) ==
    IF result = PASS THEN TestResult(PASS, None, CONF_SURE)
    ELSE IF result = FAIL THEN TestResult(FAIL, PyStr(<<"a", "<", "b", "c">>), CONF_SURE)
    ELSE TestResult(SKIP, PyStr(<<>>), CONF_GUESS)

\* what a caller puts in a list for add_results: a finished check, or a group
\* that its check goes on filling
NewValues == {Sample(o) : o \in Outcomes} \cup {GroupTestResult}

\* the lists of at most n new values
RECURSIVE Lists(_)
Lists(n) ==
    IF n = 0 THEN {<<>>}
    ELSE Lists(n - 1) \cup {Append(l, v) : l \in {x \in Lists(n - 1) : Len(x) = n - 1},
                                            v \in NewValues}

\* the entries for a list of values, named by their place in the collection
RECURSIVE Named(_, _)
Named(values, first) ==
    IF values = <<>> THEN <<>>
    ELSE <<Entry(TestNames[first], Head(values))>> \o Named(Tail(values), first + 1)

\* the groups with m members
RECURSIVE GroupsWith(_)
GroupsWith(m) ==
    IF m = 0 THEN {GroupTestResult}
    ELSE {GroupAddResult(g, SubNames[m], Sample(o)) : g \in GroupsWith(m - 1),
                                                      o \in Outcomes}

\* the entry values holding s records
ValuesOfSize(s) ==
    IF s = 1 THEN {Sample(o) : o \in Outcomes} \cup GroupsWith(0) ELSE GroupsWith(s - 1)

\* the collections holding n records: what add_results and add_result can build
RECURSIVE CollectionsOfSize(_)
CollectionsOfSize(n) ==
    IF n = 0 THEN {<<>>}
    ELSE UNION {{Append(c, Entry(TestNames[Len(c) + 1], v)) :
                    c \in CollectionsOfSize(n - s), v \in ValuesOfSize(s)} : s \in 1..n}

Collections == UNION {CollectionsOfSize(n) : n \in 0..MaxSize}

\* add_results inserting the new elements before the existing entries
add_results_prepending ==
    \E values \in Lists(MaxBatch) :
        /\ Size(results) + Len(values) <= MaxSize
        /\ LET new_results == Named(values, Len(results) + 1)
           IN  /\ results' = new_results \o results
               /\ last' = MemoryCall("add_results", new_results, None, <<>>)

add_results ==
    \E values \in Lists(MaxBatch) :
        /\ Size(results) + Len(values) <= MaxSize
        /\ LET new_results == Named(values, Len(results) + 1)
           IN  /\ results' = results \o new_results
               /\ last' = MemoryCall("add_results", new_results, None, <<>>)

add_result ==
    \E i \in 1..Len(results), o \in Outcomes :
        /\ isGroupTestResult(results[i].result)
        /\ Size(results) < MaxSize
        /\ LET name == SubNames[Len(results[i].result.results_list) + 1]
           IN  /\ results' = [results EXCEPT
                                ![i].result = GroupAddResult(@, name, Sample(o))]
               /\ last' = MemoryCall("add_result", <<i, name, o>>, None, <<>>)

had_failures ==
    /\ last' = MemoryCall("had_failures", <<>>, HadFailures(results), <<>>)
    /\ UNCHANGED results

check_display_result ==
    \E o \in Outcomes, display_mode \in DisplayTypes :
        /\ last' = MemoryCall("_check_display_result", <<o, display_mode>>,
                              _check_display_result(PyInt(o), display_mode), <<>>)
        /\ UNCHANGED results

display_on_terminal ==
    \E use_color \in BOOLEAN, display_type \in DisplayTypes, term_width \in TermWidths :
        /\ last' = MemoryCall("display_on_terminal",
                              <<use_color, display_type, term_width>>, None,
                              TerminalOutput(results, use_color, display_type, term_width))
        /\ UNCHANGED results

write_csv ==
    \E filename \in Paths, open_ok \in BOOLEAN, written \in 0..Len(CsvChunks(results)) :
        /\ open_ok \/ written = 0
        /\ last' = Call("write_csv", <<>>, None, <<>>, filename,
                        write_csv_io(filename, CsvChunks(results), open_ok, written))
        /\ UNCHANGED results

write_json ==
    \E filename \in Paths, open_ok \in BOOLEAN, written \in 0..Len(JsonChunks(results)) :
        /\ open_ok \/ written = 0
        /\ last' = Call("write_json", <<>>, None, <<>>, filename,
                        write_json_io(filename, JsonChunks(results), open_ok, written))
        /\ UNCHANGED results

write_html ==
    \E filename \in Paths, display_type \in DisplayTypes, template \in TemplateStates,
       open_ok \in BOOLEAN, written \in 0..1 :
        /\ (template = "ok" /\ open_ok) \/ written = 0
        /\ template = "ok" \/ open_ok
        /\ last' = Call("write_html", <<display_type>>, None, <<>>, filename,
                        write_html_io(filename, HtmlChunks(HtmlRows(results, display_type)),
                                      template, open_ok, written))
        /\ UNCHANGED results

(***************************************************************************)
(* Spec: a run builds the collection and queries it in memory.             *)
(***************************************************************************)
Init ==
    /\ results = <<>>
    /\ last = MemoryCall("TestResults", <<>>, None, <<>>)

Next ==
    \/ add_results
    \/ add_result
    \/ had_failures
    \/ check_display_result
    \/ display_on_terminal

Spec == Init /\ [][Next]_vars

(***************************************************************************)
(* SpecRender: one renderer call on each collection a run can build.  The  *)
(* renderers keep no state between calls and leave the collection alone,   *)
(* so a call's result depends on the collection and its arguments only.    *)
(***************************************************************************)
InitRender ==
    /\ results \in Collections
    /\ last = MemoryCall("TestResults", <<>>, None, <<>>)

\* no renderer has been called yet
Fresh == last.op = "TestResults"

NextRender ==
    \/ Fresh /\ display_on_terminal
    \/ Fresh /\ write_csv
    \/ Fresh /\ write_json
    \/ Fresh /\ write_html

SpecRender == InitRender /\ [][NextRender]_vars

(***************************************************************************)
(* SpecCalls: one call of any operation on each collection a run can       *)
(* build, so that every step is one call from a known collection.          *)
(***************************************************************************)
NextCalls ==
    \/ Fresh /\ add_results
    \/ Fresh /\ add_result
    \/ Fresh /\ had_failures
    \/ Fresh /\ check_display_result
    \/ Fresh /\ display_on_terminal
    \/ Fresh /\ write_csv
    \/ Fresh /\ write_json
    \/ Fresh /\ write_html

SpecCalls == InitRender /\ [][NextCalls]_vars

\* every collection a run builds is one the renderers are applied to
CollectionsCoverRuns == results \in Collections

(***************************************************************************)
(* Vocabulary of the properties                                            *)
(***************************************************************************)
\* the outcome of a top-level entry: a record's result, a group's aggregate
EntryOutcome(e) ==
    IF isGroupTestResult(e.result) THEN e.result.group_result ELSE e.result.result

\* the visibility table: FAIL from FAIL_ONLY up, SKIP from NOT_PASS up, PASS at ALL
ShouldDisplay(outcome, verbosity) ==
    \/ outcome = FAIL /\ verbosity \in {DISPLAY_FAIL_ONLY, DISPLAY_NOT_PASS, DISPLAY_ALL}
    \/ outcome = SKIP /\ verbosity \in {DISPLAY_NOT_PASS, DISPLAY_ALL}
    \/ outcome = PASS /\ verbosity = DISPLAY_ALL

\* the aggregate a group should have, from the outcomes of its members
ExpectedAggregate(result_list) ==
    IF \E k \in 1..Len(result_list) : result_list[k].result.result = FAIL THEN FAIL
    ELSE IF \E k \in 1..Len(result_list) : result_list[k].result.result = PASS THEN PASS
    ELSE SKIP

GroupIndexes == {i \in 1..Len(results) : isGroupTestResult(results[i].result)}
LeafIndexes == {i \in 1..Len(results) : isTestResult(results[i].result)}

\* the leaves in insertion and member order: a standalone record has no subtest
RECURSIVE MemberLeaves(_, _, _)
MemberLeaves(e, k, indent) ==
    IF k > Len(e.result.results_list) THEN <<>>
    ELSE <<[test |-> e.name, subtest |-> e.result.results_list[k].name,
            name |-> e.result.results_list[k].name, indent |-> indent,
            notes |-> e.result.results_list[k].result.notes,
            result |-> e.result.results_list[k].result.result]>>
         \o MemberLeaves(e, k + 1, indent)

RECURSIVE Leaves(_)
Leaves(rs) ==
    IF rs = <<>> THEN <<>>
    ELSE (IF isGroupTestResult(Head(rs).result) THEN MemberLeaves(Head(rs), 1, TRUE)
          ELSE <<[test |-> Head(rs).name, subtest |-> "", name |-> Head(rs).name,
                  indent |-> FALSE, notes |-> Head(rs).result.notes,
                  result |-> Head(rs).result.result]>>)
         \o Leaves(Tail(rs))

IsRow(line) == line.kind \in {"row", "tr"}
IsWriter(op) == op \in {"write_csv", "write_json", "write_html"}

(***************************************************************************)
(* C1: after any sequence of add_result calls the group's aggregate is     *)
(* FAIL if a member failed, otherwise PASS if a member passed, otherwise   *)
(* SKIP (the empty group included); a FAIL aggregate therefore stays FAIL. *)
(***************************************************************************)
C1_GroupAggregate ==
    \A i \in GroupIndexes :
        results[i].result.group_result = ExpectedAggregate(results[i].result.results_list)

\* a group that failed first and passed afterwards
C1_Witness ==
    /\ last.op = "add_result"
    /\ \E i \in GroupIndexes :
          LET l == results[i].result.results_list
          IN  /\ Len(l) >= 2
              /\ l[1].result.result = FAIL
              /\ l[Len(l)].result.result = PASS

(***************************************************************************)
(* C2: had_failures is true exactly when some top-level entry has outcome  *)
(* FAIL (a record's result, a group's aggregate), false for the empty      *)
(* collection.                                                             *)
(***************************************************************************)
C2_HadFailuresIffAnyFail ==
    last.op = "had_failures" =>
        (last.ret <=> \E i \in 1..Len(results) : EntryOutcome(results[i]) = FAIL)

(***************************************************************************)
(* C3: _check_display_result is true exactly for FAIL at FAIL_ONLY,        *)
(* NOT_PASS and ALL, for SKIP at NOT_PASS and ALL, and for PASS at ALL; it *)
(* is false for every outcome at OVERALL_ONLY.                             *)
(***************************************************************************)
C3_VisibilityTable ==
    last.op = "_check_display_result" =>
        /\ last.ret <=> ShouldDisplay(last.args[1], last.args[2])
        /\ last.args[2] = DISPLAY_OVERALL_ONLY => ~last.ret

\* a FAIL shown at FAIL_ONLY
C3_Witness ==
    /\ last.op = "_check_display_result"
    /\ last.args = <<FAIL, DISPLAY_FAIL_ONLY>>
    /\ last.ret

(***************************************************************************)
(* C4: at FAIL_ONLY, NOT_PASS and ALL, display_on_terminal prints a row    *)
(* for a leaf (standalone or member of a group) exactly when the leaf's    *)
(* own outcome passes the visibility filter.                               *)
(***************************************************************************)
\* the rows printed for leaves: the rows that are not a group's own row
PrintedLeafRows ==
    SelectSeq(last.stdout,
              LAMBDA line : /\ IsRow(line)
                            /\ ~\E i \in GroupIndexes :
                                   line.name = results[i].name /\ line.tab = "")

C4_TerminalLeafRows ==
    (last.op = "display_on_terminal" /\ last.args[2] # DISPLAY_OVERALL_ONLY) =>
        LET shown == SelectSeq(Leaves(results),
                               LAMBDA leaf : ShouldDisplay(leaf.result, last.args[2]))
        IN  /\ Len(PrintedLeafRows) = Len(shown)
            /\ \A k \in 1..Len(shown) :
                  /\ PrintedLeafRows[k].name = shown[k].name
                  /\ PrintedLeafRows[k].pass_string = _result_text(shown[k].result)
                  /\ (PrintedLeafRows[k].tab # "") = shown[k].indent

(***************************************************************************)
(* C5: at OVERALL_ONLY, display_on_terminal and write_html emit exactly    *)
(* one row per top-level entry, in insertion order and whatever its        *)
(* outcome, and no row for a group member.                                 *)
(***************************************************************************)
\* the rows of the latest call: the lines printed, or the rows in the file written
EmittedRows ==
    IF last.op = "display_on_terminal" THEN SelectSeq(last.stdout, IsRow)
    ELSE IF last.op = "write_html" /\ last.io = "ok"
    THEN SelectSeq(last.after.content[1].tokens, IsRow)
    ELSE <<>>

\* a row as display_on_terminal or write_html lays out a top-level entry
IsTopLevelRowOf(row, e) ==
    IF row.kind = "row"
    THEN /\ row.name = e.name
         /\ row.tab = ""
         /\ row.pass_string = _result_text(EntryOutcome(e))
    ELSE /\ row.name = cgi_escape(e.name)
         /\ row.name_class = ""
         /\ row.text = _result_text(EntryOutcome(e))

OverallOnlyCall ==
    \/ last.op = "display_on_terminal" /\ last.args[2] = DISPLAY_OVERALL_ONLY
    \/ last.op = "write_html" /\ last.io = "ok" /\ last.args[1] = DISPLAY_OVERALL_ONLY

C5_OverallOnlyRows ==
    OverallOnlyCall =>
        /\ Len(EmittedRows) = Len(results)
        /\ \A i \in 1..Len(results) : IsTopLevelRowOf(EmittedRows[i], results[i])

\* an HTML report at OVERALL_ONLY of a record and a group with a failed member
C5_Witness ==
    /\ last.op = "write_html" /\ last.io = "ok" /\ last.args[1] = DISPLAY_OVERALL_ONLY
    /\ LeafIndexes # {}
    /\ \E i \in GroupIndexes :
          /\ Len(results[i].result.results_list) >= 1
          /\ results[i].result.group_result = FAIL
    /\ Len(EmittedRows) = 2

(***************************************************************************)
(* C6: write_html emits the row of a group exactly when the group's        *)
(* aggregate passes the visibility filter or the verbosity is              *)
(* OVERALL_ONLY, as display_on_terminal does.                              *)
(***************************************************************************)
HasGroupRow(e) ==
    \E k \in 1..Len(EmittedRows) :
        EmittedRows[k].name = cgi_escape(e.name) /\ EmittedRows[k].name_class = ""

C6_HtmlGroupRow ==
    (last.op = "write_html" /\ last.io = "ok") =>
        \A i \in GroupIndexes :
            HasGroupRow(results[i]) <=>
                \/ ShouldDisplay(results[i].result.group_result, last.args[1])
                \/ last.args[1] = DISPLAY_OVERALL_ONLY

(***************************************************************************)
(* C7: write_csv writes the header and one row per leaf, write_json one    *)
(* object per leaf (members under their group), in insertion and member    *)
(* order; a standalone leaf has an empty Subtest, a member has its group's *)
(* name as Test and its own as Subtest; the empty collection gives a       *)
(* header-only CSV and an empty JSON array.                                *)
(***************************************************************************)
\* the leaf objects of a JSON document, members taken out of their group
RECURSIVE JsonMembers(_, _, _)
JsonMembers(test, list, k) ==
    IF k > Len(list) THEN <<>>
    ELSE <<[test |-> test, subtest |-> list[k].name, result |-> list[k].result.text]>>
         \o JsonMembers(test, list, k + 1)

RECURSIVE JsonLeaves(_)
JsonLeaves(chunks) ==
    IF chunks = <<>> THEN <<>>
    ELSE (IF Head(chunks).kind # "json_object" THEN <<>>
          ELSE IF "list" \in DOMAIN Head(chunks).object.result
          THEN JsonMembers(Head(chunks).object.name, Head(chunks).object.result.list, 1)
          ELSE <<[test |-> Head(chunks).object.name, subtest |-> "",
                  result |-> Head(chunks).object.result.text]>>)
         \o JsonLeaves(Tail(chunks))

UnableMessage(op) ==
    IF op = "write_csv" THEN CsvUnable
    ELSE IF op = "write_json" THEN JsonUnable
    ELSE HtmlOutputUnable

Logged(msg) == \E k \in 1..Len(last.log) : last.log[k] = msg

C8_OpenFailure ==
    (IsWriter(last.op) /\ last.io = "open_failed") =>
        /\ Logged(UnableMessage(last.op))
        /\ last.raised = "none"
        /\ last.after = last.before

\* write_json could not open a path that holds an earlier artifact
C8_Witness ==
    /\ last.op = "write_json" /\ last.io = "open_failed"
    /\ last.before = PriorFile
    /\ last.after = PriorFile

(***************************************************************************)
(* C9: a failure while writing to the opened destination is logged, the    *)
(* function returns normally, no exception reaches the caller, and no      *)
(* partial artifact is left at the path.                                   *)
(***************************************************************************)
C9_WriteFailure ==
    (IsWriter(last.op) /\ last.io = "write_failed") =>
        /\ Len(last.log) >= 2
        /\ last.raised = "none"
        /\ ~last.after.exists \/ last.after = last.before

(***************************************************************************)
(* C10: when the template cannot be opened or read, write_html logs the    *)
(* template error, with a message other than the output-open one, and      *)
(* returns before the output path is opened: the output is neither         *)
(* created, truncated nor written.                                         *)
(***************************************************************************)
C10_TemplateFailure ==
    (last.op = "write_html"
        /\ last.io \in {"template_open_failed", "template_read_failed"}) =>
        /\ Logged(HtmlTemplateUnable)
        /\ ~Logged(HtmlOutputUnable)
        /\ last.raised = "none"
        /\ last.handle = "none"
        /\ last.after = last.before

\* the template could not be read and the earlier artifact is still in place
C10_Witness ==
    /\ last.op = "write_html" /\ last.io = "template_read_failed"
    /\ last.before = PriorFile
    /\ last.after = PriorFile

(***************************************************************************)
(* C11: for every terminal width, with w = width - 60 - 9 - 11, notes      *)
(* longer than w are printed as their first w-3 characters followed by     *)
(* "...", w characters in all; notes of at most w characters are printed   *)
(* unchanged.  In particular at the default width of 80 columns.           *)
(***************************************************************************)
\* the characters of a notes value (None has none)
NotesChars(notes) == IF notes.type = "str" THEN notes.chars ELSE <<>>

C11_NotesTruncation ==
    (last.op = "display_on_terminal" /\ last.args[2] = DISPLAY_ALL) =>
        LET w == last.args[3] - TEST_NAME - TEST_RESULT - TEST_CONFIDENCE
            leaves == Leaves(results)
        IN  /\ Len(PrintedLeafRows) = Len(leaves)
            /\ \A k \in 1..Len(leaves) :
                  LET given == NotesChars(leaves[k].notes)
                      printed == PrintedLeafRows[k].notes
                  IN  IF Len(given) > w
                      THEN /\ printed = SubSeq(given, 1, w - 3) \o <<".", ".", ".">>
                           /\ Len(printed) = w
                      ELSE printed = given

(***************************************************************************)
(* C12: display_on_terminal, write_csv, write_json, write_html and         *)
(* had_failures leave the collection as it was (the entries, every group's *)
(* member list and aggregate), whether they succeed or fail; only          *)
(* add_results changes the sequence of entries, and it appends the given   *)
(* elements, in the given order, after the existing entries.               *)
(***************************************************************************)
IsReadOnly(op) ==
    op \in {"display_on_terminal", "write_csv", "write_json", "write_html", "had_failures"}

\* the sequence of entries, apart from what each entry holds
EntryNames(rs) == [i \in 1..Len(rs) |-> rs[i].name]

C12_FrameEffect ==
    [][/\ IsReadOnly(last'.op) => results' = results
       /\ last'.op = "add_results" => results' = results \o last'.args
       /\ last'.op # "add_results" => EntryNames(results') = EntryNames(results)]_vars

\* two elements were added after an existing group
C12_Witness ==
    /\ last.op = "add_results"
    /\ Len(last.args) = 2
    /\ Len(results) = 3
    /\ isGroupTestResult(results[1].result)
    /\ results[2] = last.args[1]
    /\ results[3] = last.args[2]

(***************************************************************************)
(* C13: in write_csv, write_json and write_html, once the destination file *)
(* has been opened its handle is closed when the call ends, both when the  *)
(* write succeeds and when it fails.                                       *)
(***************************************************************************)
\* the destination was opened: the call got as far as writing
DestinationOpened == last.io \in {"ok", "write_failed"}

C13_HandleClosed ==
    (IsWriter(last.op) /\ DestinationOpened) => last.handle = "closed"

====
